---- MODULE Spec2Model ----
(***************************************************************************)
(* Model of the Mycila task manager: the power-of-two histogram            *)
(* (BinStatistics), the Task state machine and the TaskManager pass.       *)
(***************************************************************************)
EXTENDS Integers, Sequences, FiniteSets, TLC

(***************************************************************************)
(* Machine integers                                                        *)
(***************************************************************************)
\* TLC's integers are 32-bit signed, so a uint32_t is kept as two 16-bit limbs
\* [hi, lo] standing for hi * 2^16 + lo; every operation below is the exact
\* unsigned 32-bit one.
UINT16_MAX == 65535
UINT8_MOD == 256
UINT16_MOD == UINT16_MAX + 1
UINT32_MAX == [hi |-> UINT16_MAX, lo |-> UINT16_MAX]

\* the uint32_t with value n, for 0 <= n < 2^31
U32(n) == [hi |-> n \div UINT16_MOD, lo |-> n % UINT16_MOD]
\* the value of a uint32_t below 2^31
ToNat(a) == a.hi * UINT16_MOD + a.lo
\* unsigned 32-bit a + b (wraps)
Add32(a, b) ==
  LET lo == a.lo + b.lo
      hi == a.hi + b.hi + (lo \div UINT16_MOD)
  IN [hi |-> hi % UINT16_MOD, lo |-> lo % UINT16_MOD]
\* unsigned 32-bit a - b (wraps)
Sub32(a, b) ==
  LET lo == a.lo - b.lo
      hi == a.hi - b.hi - (IF lo < 0 THEN 1 ELSE 0)
  IN [hi |-> (hi + UINT16_MOD) % UINT16_MOD, lo |-> (lo + UINT16_MOD) % UINT16_MOD]
\* a >= b on uint32_t
Ge32(a, b) == a.hi > b.hi \/ (a.hi = b.hi /\ a.lo >= b.lo)

Min(a, b) == IF a < b THEN a ELSE b
Max(a, b) == IF a > b THEN a ELSE b

RECURSIVE Log2Floor(_)
\* floor(log2(n)) for n >= 1
Log2Floor(n) == IF n <= 1 THEN 0 ELSE 1 + Log2Floor(n \div 2)

(***************************************************************************)
(* Bounds                                                                  *)
(***************************************************************************)
MaxBins == 3
MaxElapsed == 9
MaxRecords == 3

BinCounts == 0..MaxBins
Dividers == {1, 2}
ElapsedValues == 0..MaxElapsed
\* numbers of record() calls a histogram may already have seen
PriorCounts == {U32(0), U32(UINT16_MAX - 1), Sub32(UINT32_MAX, U32(1))}
\* the value all of them recorded
PriorValues == {0, 2}

(***************************************************************************)
(* BinStatistics                                                           *)
(***************************************************************************)
\* BinStatistics(binCount, unitDivider): bins allocated and cleared.
\* bins[i + 1] models _bins[i].
NewBinStatistics(binCount, unitDivider) ==
  [binCount |-> binCount,
   unitDivider |-> unitDivider,
   bins |-> [i \in 1..binCount |-> 0],
   count |-> U32(0)]

\* BinStatistics::bin(index)
Bin(h, index) == IF index < h.binCount THEN h.bins[index + 1] ELSE 0

\* BinStatistics::clear()
Clear(h) == [h EXCEPT !.count = U32(0), !.bins = [i \in 1..h.binCount |-> 0]]

RECURSIVE HalvingLoop(_, _, _)
\* while (elapsed >>= 1 && bin < _binCount - 1) bin++;
\* C++ parses the condition as  elapsed >>= (1 && bin < _binCount - 1):  the
\* shift amount is 1 while bin < _binCount - 1 and 0 afterwards, and the loop
\* goes on while the shifted value is non-zero.  bin is a uint8_t: once
\* bin >= _binCount - 1 with elapsed non-zero, the iterations change nothing
\* but bin, which counts up and wraps at UINT8_MOD to 0 (taken here in one
\* step); the halving resumes there if 0 < _binCount - 1, and otherwise no
\* iteration ever changes elapsed and the loop does not exit.
HalvingLoop(elapsed, bin, binCount) ==
  IF bin < binCount - 1
  THEN LET e == elapsed \div 2
       IN IF e = 0 THEN [bin |-> bin, returns |-> TRUE]
          ELSE HalvingLoop(e, (bin + 1) % UINT8_MOD, binCount)
  ELSE IF elapsed = 0 THEN [bin |-> bin, returns |-> TRUE]
       ELSE IF 0 < binCount - 1 THEN HalvingLoop(elapsed, 0, binCount)
       ELSE [bin |-> bin, returns |-> FALSE]

RECURSIVE HalvingCost(_, _, _)
\* The same loop, for the calls on which it exits: how often its body (bin++)
\* runs and the largest value bin takes.  With bin >= _binCount - 1 and
\* elapsed non-zero the body runs UINT8_MOD - bin times before bin is 0 again.
HalvingCost(elapsed, bin, binCount) ==
  IF bin < binCount - 1
  THEN LET e == elapsed \div 2
       IN IF e = 0 THEN [iterations |-> 0, maxBin |-> bin]
          ELSE LET r == HalvingCost(e, (bin + 1) % UINT8_MOD, binCount)
               IN [iterations |-> r.iterations + 1, maxBin |-> Max(bin, r.maxBin)]
  ELSE IF elapsed = 0 THEN [iterations |-> 0, maxBin |-> bin]
       ELSE IF 0 < binCount - 1
       THEN LET r == HalvingCost(elapsed, 0, binCount)
            IN [iterations |-> r.iterations + (UINT8_MOD - bin),
                maxBin |-> UINT8_MOD - 1]
       ELSE [iterations |-> 0, maxBin |-> UINT8_MOD - 1]

\* a plausible slip: the early return for binCount = 0 placed before _count++
RecordCountAfterReturn(h, elapsed) ==
  LET c0 == IF h.count = UINT32_MAX THEN Clear(h) ELSE h
      c1 == [c0 EXCEPT !.count = Add32(c0.count, U32(1))]
  IN IF h.binCount = 0 THEN [h |-> c0, returns |-> TRUE]
     ELSE LET r == HalvingLoop(elapsed \div h.unitDivider, 0, h.binCount)
          IN IF ~r.returns THEN [h |-> c1, returns |-> FALSE]
             ELSE [h |-> IF c1.bins[r.bin + 1] < UINT16_MAX
                         THEN [c1 EXCEPT !.bins[r.bin + 1] = @ + 1]
                         ELSE c1,
                   returns |-> TRUE]

\* a plausible slip: the bucket counter incremented without the UINT16_MAX
\* test, so that the uint16_t wraps
RecordWraps(h, elapsed) ==
  LET c0 == IF h.count = UINT32_MAX THEN Clear(h) ELSE h
      c1 == [c0 EXCEPT !.count = Add32(c0.count, U32(1))]
  IN IF h.binCount = 0 THEN [h |-> c1, returns |-> TRUE]
     ELSE LET r == HalvingLoop(elapsed \div h.unitDivider, 0, h.binCount)
          IN IF ~r.returns THEN [h |-> c1, returns |-> FALSE]
             ELSE [h |-> [c1 EXCEPT !.bins[r.bin + 1] = (@ + 1) % UINT16_MOD],
                   returns |-> TRUE]

\* BinStatistics::record(elapsed): the histogram after the call, and whether
\* the call returns (it does not when the halving loop never exits; _count
\* has been incremented by then).
Record(h, elapsed) ==
  LET c0 == IF h.count = UINT32_MAX THEN Clear(h) ELSE h
      c1 == [c0 EXCEPT !.count = Add32(c0.count, U32(1))]
  IN IF h.binCount = 0 THEN [h |-> c1, returns |-> TRUE]
     ELSE LET r == HalvingLoop(elapsed \div h.unitDivider, 0, h.binCount)
          IN IF ~r.returns THEN [h |-> c1, returns |-> FALSE]
             ELSE [h |-> IF c1.bins[r.bin + 1] < UINT16_MAX
                         THEN [c1 EXCEPT !.bins[r.bin + 1] = @ + 1]
                         ELSE c1,
                   returns |-> TRUE]

(***************************************************************************)
(* Task                                                                    *)
(***************************************************************************)
Types == {"ONCE", "FOREVER"}
\* _enabled: no predicate, the always-false predicate of setEnabled(false),
\* or a caller's predicate installed with setEnabledWhen(), with what it
\* returns at present
Predicates == {"null", "ALWAYS_FALSE", "pred_true", "pred_false"}

NoStats == [on |-> FALSE, h |-> NewBinStatistics(0, 1)]
NoResume == [valid |-> FALSE, at |-> U32(0), delay |-> U32(0)]

\* a plausible slip: setType() without the early return for an unchanged type
SetTypeRecAlwaysPauses(tk, type) ==
  [tk EXCEPT !.type = type, !.paused = (type = "ONCE")]

\* Task& Task::setType(type)
SetTypeRec(tk, type) ==
  IF tk.type = type THEN tk
  ELSE [tk EXCEPT !.type = type, !.paused = (type = "ONCE")]

\* The member initialisers of Task.  ranSinceResume and resumed are history:
\* whether _run() has completed since the last resume(), and the last
\* resume(delay) that no run or rescheduling call has followed.
DefaultTask ==
  [alive |-> TRUE, owned |-> FALSE, type |-> "FOREVER", enabled |-> "null",
   paused |-> FALSE, running |-> FALSE, onDone |-> FALSE, stats |-> NoStats,
   intervalMs |-> U32(0), lastEnd |-> U32(0),
   ranSinceResume |-> FALSE, resumed |-> NoResume]

\* Task(name, type, fn)
ConstructTask(type) == SetTypeRec(DefaultTask, type)

\* a task that is not constructed, or destroyed
NoTask == [DefaultTask EXCEPT !.alive = FALSE]

\* bool Task::enabled(): !_enabled || _enabled()
Enabled(tk) ==
  \/ tk.enabled = "null"
  \/ tk.enabled = "pred_true"

\* a plausible slip: the interval-0 case forgotten
ShouldRunNoZeroInterval(tk, clock) ==
  IF tk.paused \/ ~Enabled(tk) THEN FALSE
  ELSE \/ tk.lastEnd = U32(0)
       \/ Ge32(Sub32(clock, tk.lastEnd), tk.intervalMs) /\ tk.intervalMs # U32(0)

\* bool Task::shouldRun()
ShouldRun(tk, clock) ==
  IF tk.paused \/ ~Enabled(tk) THEN FALSE
  ELSE \/ tk.lastEnd = U32(0)
       \/ tk.intervalMs = U32(0)
       \/ Ge32(Sub32(clock, tk.lastEnd), tk.intervalMs)

\* bool Task::earlyRunRequested()
EarlyRunRequested(tk) == tk.lastEnd = U32(0)

\* a plausible slip: tryRun() without the _lastEnd == 0 test
TryRunDueNoSentinel(tk, clock) ==
  IF tk.paused \/ ~Enabled(tk) THEN FALSE
  ELSE IF tk.intervalMs = U32(0) THEN TRUE
  ELSE Ge32(Sub32(clock, tk.lastEnd), tk.intervalMs)

\* a plausible slip: tryRun() without the paused test
TryRunDueIgnoresPause(tk, clock) ==
  IF ~Enabled(tk) THEN FALSE
  ELSE IF tk.lastEnd = U32(0) \/ tk.intervalMs = U32(0) THEN TRUE
  ELSE Ge32(Sub32(clock, tk.lastEnd), tk.intervalMs)

\* a plausible slip: the interval test done as now >= _lastEnd + _intervalMs
\* on values that do not wrap
TryRunDueNoWrap(tk, clock) ==
  IF tk.paused \/ ~Enabled(tk) THEN FALSE
  ELSE IF tk.lastEnd = U32(0) \/ tk.intervalMs = U32(0) THEN TRUE
  ELSE Ge32(clock, tk.lastEnd) /\ Ge32(Sub32(clock, tk.lastEnd), tk.intervalMs)

\* the decision of bool Task::tryRun(): TRUE when it calls _run()
TryRunDue(tk, clock) ==
  IF tk.paused \/ ~Enabled(tk) THEN FALSE
  ELSE IF tk.lastEnd = U32(0) \/ tk.intervalMs = U32(0) THEN TRUE
  ELSE Ge32(Sub32(clock, tk.lastEnd), tk.intervalMs)

\* a plausible slip: resume() that leaves the task paused
ResumeRecStaysPaused(tk, delay, clock) ==
  IF delay # 0
  THEN [tk EXCEPT !.intervalMs = U32(delay), !.lastEnd = clock,
                  !.resumed = [valid |-> TRUE, at |-> clock, delay |-> U32(delay)]]
  ELSE tk

\* Task& Task::resume(delayMillis) at clock value clock
ResumeRec(tk, delay, clock) ==
  LET t1 == IF delay # 0
            THEN [tk EXCEPT !.intervalMs = U32(delay), !.lastEnd = clock,
                            !.resumed = [valid |-> TRUE, at |-> clock, delay |-> U32(delay)]]
            ELSE tk
  IN [t1 EXCEPT !.paused = FALSE, !.ranSinceResume = FALSE]

(***************************************************************************)
(* TaskManager: the list and what work functions and callbacks do to it    *)
(***************************************************************************)
\* a plausible slip: erase only the first entry found
RemoveFirstOnly(list, u) ==
  IF \E k \in 1..Len(list) : list[k] = u
  THEN LET k == CHOOSE j \in 1..Len(list) :
                  /\ list[j] = u
                  /\ \A i \in 1..(j - 1) : list[i] # u
       IN SubSeq(list, 1, k - 1) \o SubSeq(list, k + 1, Len(list))
  ELSE list

\* the list after _tasks.remove_if(t.get() == &task)
RemoveIf(list, u) == SelectSeq(list, LAMBDA x : x # u)

\* a plausible slip: push_front instead of push_back
PushFront(list, e) == <<e>> \o list

\* _tasks.push_back(e)
PushBack(list, e) == Append(list, e)

\* What a work function or a completion callback does besides taking time.
NoEffect == [kind |-> "none", target |-> 0]

\* The world a running task acts on: the tasks, the manager's list, the clock
\* and loop()'s list iterator.  it is the position of the iterator's node;
\* once that node has been erased (dangling) it is the position of the first
\* surviving node behind it, which is where the erased node's next pointer
\* leads if the freed memory is still intact.
\* TaskManager::removeTask(task u) called in world w.
RemoveTaskW(w, u) ==
  LET list == w.tasks
      before == Cardinality({k \in 1..(w.it - 1) : k <= Len(list) /\ list[k] # u})
      hitsCurrent == w.iterating /\ ~w.dangling /\ w.it <= Len(list) /\ list[w.it] = u
      listed == \E k \in 1..Len(list) : list[k] = u
  IN [w EXCEPT !.tasks = RemoveIf(list, u),
               !.it = IF w.iterating THEN before + 1 ELSE w.it,
               !.dangling = w.dangling \/ hitsCurrent,
               !.task[u] = IF listed /\ w.task[u].owned THEN NoTask ELSE @,
               !.removed = IF listed THEN @ \cup {u} ELSE @]

\* the effect eff performed by task self's work function or callback
ApplyEffect(w, self, eff) ==
  IF eff.kind = "remove" THEN RemoveTaskW(w, eff.target)
  ELSE IF eff.kind = "resume" /\ w.task[self].alive
  THEN [w EXCEPT !.task[self] = ResumeRec(@, 0, w.now)]
  ELSE IF eff.kind = "pause" /\ w.task[eff.target].alive
  THEN [w EXCEPT !.task[eff.target].paused = TRUE]
  ELSE IF eff.kind = "disable" /\ w.task[eff.target].alive
  THEN [w EXCEPT !.task[eff.target].enabled = "ALWAYS_FALSE"]
  ELSE w

\* a plausible slip: the end of the run not stamped
AfterFnNoStamp(tk, clock) ==
  [tk EXCEPT !.running = FALSE,
             !.paused = IF tk.type = "ONCE" THEN TRUE ELSE @,
             !.ranSinceResume = TRUE, !.resumed = NoResume]

\* a plausible slip: ONCE tasks not paused after their run
AfterFnNoPause(tk, clock) ==
  [tk EXCEPT !.running = FALSE, !.lastEnd = clock,
             !.ranSinceResume = TRUE, !.resumed = NoResume]

\* a plausible slip: _running not cleared when _fn has returned
AfterFnStillRunning(tk, clock) ==
  [tk EXCEPT !.lastEnd = clock,
             !.paused = IF tk.type = "ONCE" THEN TRUE ELSE @,
             !.ranSinceResume = TRUE, !.resumed = NoResume]

\* _run() between the return of _fn and the histogram update
AfterFn(tk, clock) ==
  [tk EXCEPT !.running = FALSE, !.lastEnd = clock,
             !.paused = IF tk.type = "ONCE" THEN TRUE ELSE @,
             !.ranSinceResume = TRUE, !.resumed = NoResume]

\* void Task::_run(now) on task t in world w: the work function takes dt and
\* performs fnEff, the completion callback (if set) performs doneEff.
\* returns is FALSE when record() never returns; freed is TRUE when the work
\* function destroyed its own task, so that the rest of _run() works on a
\* destroyed object.  atFn is the task as the work function finds it, atDone
\* the task as record() and the completion callback find it, fnEnd the clock
\* when the work function returned.
\* what a function called from _run() can read of the task's run state
Seen(tk) == [running |-> tk.running, lastEnd |-> tk.lastEnd, paused |-> tk.paused]

RunW(w, t, dt, fnEff, doneEff) ==
  LET start == w.now
      w1 == [w EXCEPT !.task[t].running = TRUE]
      w2 == ApplyEffect([w1 EXCEPT !.now = Add32(@, U32(dt))], t, fnEff)
  IN IF ~w2.task[t].alive
     THEN [w |-> [w2 EXCEPT !.uaf = TRUE], returns |-> TRUE, ranDone |-> FALSE,
           atFn |-> Seen(w1.task[t]), atDone |-> Seen(NoTask), fnEnd |-> w2.now]
     ELSE
       LET w3 == [w2 EXCEPT !.task[t] = AfterFn(@, w2.now)]
           elapsed == Sub32(w3.task[t].lastEnd, start)
           st == w3.task[t].stats
           rec == IF st.on THEN Record(st.h, ToNat(elapsed))
                  ELSE [h |-> st.h, returns |-> TRUE]
           w4 == [w3 EXCEPT !.task[t].stats.h = rec.h]
           seen == [atFn |-> Seen(w1.task[t]), atDone |-> Seen(w3.task[t]), fnEnd |-> w2.now]
       IN IF ~rec.returns
          THEN [w |-> w4, returns |-> FALSE, ranDone |-> FALSE] @@ seen
          ELSE IF w4.task[t].onDone
          THEN [w |-> ApplyEffect(w4, t, doneEff), returns |-> TRUE, ranDone |-> TRUE] @@ seen
          ELSE [w |-> w4, returns |-> TRUE, ranDone |-> FALSE] @@ seen

(***************************************************************************)
(* Bounds of the scheduler model                                           *)
(***************************************************************************)
MaxLen == 3
MaxTicks == 2
MaxStatRecords == 1

TaskIds == {1, 2, 3}
\* the tasks the program holds as objects of its own (the others are made by
\* TaskManager::newTask)
OwnTasks == {1}
NewTasks == TaskIds \ OwnTasks

(***************************************************************************)
(* State                                                                   *)
(***************************************************************************)
VARIABLES
  hist,      \* a BinStatistics object
  histHung,  \* TRUE once a record() call on hist failed to return
  lastRec,   \* the last record() call on hist: its argument and the histogram before it
  recCalls,  \* record() calls on hist since its last clear()
  recSteps,  \* record()/clear() calls made on hist by this run
  now,       \* millis()
  ticks,     \* how often the clock has advanced
  task,      \* the Task objects
  tasks,     \* TaskManager::_tasks
  otherTasks, \* _tasks of a second TaskManager
  mstats,    \* TaskManager::_stats
  pc,        \* "idle", "loop" (inside loop()), "hung", "crashed"
  it,        \* loop(): position of the list iterator
  executed,  \* loop(): executed
  loopNow,   \* loop(): now
  uaf,       \* TRUE once freed memory has been accessed
  statRecords, \* record() calls made by tasks and the manager
  visited,   \* history: the tryRun() calls of the pass so far, in order, with
             \* whether the task ran and whether it removed itself from the list
  passStart, \* history: the list when the pass began
  passRemoved, \* history: the tasks removed from the list during the pass
  lastTry,   \* history: the last tryRun(), forceRun() or shouldRun() call
  lastPass,  \* history: the last completed pass
  passLog    \* history: the return values of the passes made back to back

binVars == <<hist, histHung, lastRec, recCalls, recSteps>>
schedVars == <<now, ticks, task, tasks, otherTasks, mstats, pc, it, executed, loopNow,
               uaf, statRecords, visited, passStart, passRemoved, lastTry, lastPass,
               passLog>>
vars == <<binVars, schedVars>>

NoRec == [valid |-> FALSE, elapsed |-> 0, pre |-> NewBinStatistics(0, 1), cleared |-> FALSE]
NoTry == [valid |-> FALSE, call |-> "none", task |-> 0, at |-> U32(0), returned |-> FALSE,
          ret |-> FALSE, ranFn |-> FALSE, ranDone |-> FALSE, inLoop |-> FALSE,
          fnEff |-> NoEffect, doneEff |-> NoEffect, itErased |-> FALSE,
          pre |-> NoTask, post |-> NoTask,
          atFn |-> Seen(NoTask), atDone |-> Seen(NoTask), fnEnd |-> U32(0)]
NoPass == [valid |-> FALSE, ret |-> 0, visited |-> <<>>, removed |-> {},
           startTasks |-> <<>>, endTasks |-> <<>>, startNow |-> U32(0),
           endNow |-> U32(0), statsPre |-> NoStats, statsPost |-> NoStats]

\* nothing has been done to the histogram hist
BinIdle ==
  /\ hist = NewBinStatistics(0, 1)
  /\ histHung = FALSE
  /\ lastRec = NoRec
  /\ recCalls = U32(0)
  /\ recSteps = 0

\* no task, an empty manager
SchedIdle ==
  /\ now = U32(0)
  /\ ticks = 0
  /\ task = [t \in TaskIds |-> NoTask]
  /\ tasks = <<>>
  /\ otherTasks = <<>>
  /\ mstats = NoStats
  /\ pc = "idle"
  /\ it = 0
  /\ executed = 0
  /\ loopNow = U32(0)
  /\ uaf = FALSE
  /\ statRecords = 0
  /\ visited = <<>>
  /\ passStart = <<>>
  /\ passRemoved = {}
  /\ lastTry = NoTry
  /\ lastPass = NoPass
  /\ passLog = <<>>

(***************************************************************************)
(* Histogram on its own                                                    *)
(***************************************************************************)
\* A histogram built with (binCount, unitDivider) that has then seen c
\* record(v) calls: they all land in the same bin, which saturates at
\* UINT16_MAX.
BinInit ==
  /\ \E binCount \in BinCounts, unitDivider \in Dividers, c \in PriorCounts,
        v \in PriorValues :
       LET r == HalvingLoop(v \div unitDivider, 0, binCount)
       IN /\ binCount > 0 => r.returns
          /\ hist = [NewBinStatistics(binCount, unitDivider) EXCEPT
                       !.count = c,
                       !.bins = [i \in 1..binCount |->
                                   IF i = r.bin + 1
                                   THEN (IF c.hi > 0 THEN UINT16_MAX ELSE c.lo) ELSE 0]]
          /\ recCalls = c
  /\ histHung = FALSE
  /\ lastRec = NoRec
  /\ recSteps = 0
  /\ SchedIdle

\* hist.record(elapsed)
BinRecord(elapsed) ==
  /\ ~histHung
  /\ recSteps < MaxRecords
  /\ LET r == Record(hist, elapsed)
     IN /\ hist' = r.h
        /\ histHung' = ~r.returns
  /\ lastRec' = [valid |-> TRUE, elapsed |-> elapsed, pre |-> hist,
                 cleared |-> hist.count = UINT32_MAX]
  /\ recCalls' = IF hist.count = UINT32_MAX THEN U32(1) ELSE Add32(recCalls, U32(1))
  /\ recSteps' = recSteps + 1
  /\ UNCHANGED schedVars

\* hist.clear()
BinClear ==
  /\ ~histHung
  /\ recSteps < MaxRecords
  /\ hist' = Clear(hist)
  /\ lastRec' = NoRec
  /\ recCalls' = U32(0)
  /\ recSteps' = recSteps + 1
  /\ UNCHANGED <<histHung, schedVars>>

BinNext ==
  \/ \E elapsed \in ElapsedValues : BinRecord(elapsed)
  \/ BinClear

SpecBin == BinInit /\ [][BinNext]_vars

(***************************************************************************)
(* Scheduler: calls made from outside a pass                               *)
(***************************************************************************)
\* the world the next call acts on; iterating is TRUE inside loop()
World(iterating) ==
  [task |-> task, tasks |-> tasks, now |-> now, it |-> it, dangling |-> FALSE,
   iterating |-> iterating, uaf |-> uaf, removed |-> {}]

ResetHistory ==
  /\ lastTry' = NoTry
  /\ lastPass' = NoPass
  /\ passLog' = <<>>

loopVars == <<pc, it, executed, loopNow, visited, passStart, passRemoved>>

\* a call that only changes task t, to the record tk, and leaves the history
\* entry try of itself
TaskCallNoted(t, tk, try) ==
  /\ pc = "idle"
  /\ task[t].alive
  /\ task' = [task EXCEPT ![t] = tk]
  /\ lastTry' = try
  /\ lastPass' = NoPass
  /\ passLog' = <<>>
  /\ UNCHANGED <<binVars, otherTasks, now, ticks, tasks, mstats, loopVars, uaf, statRecords>>

\* a call that only changes task t, to the record tk
TaskCall(t, tk) == TaskCallNoted(t, tk, NoTry)

\* the history entry of the call named call that took task t from pre to post
NotedCall(call, t, pre, post) ==
  [NoTry EXCEPT !.valid = TRUE, !.call = call, !.task = t, !.at = now,
                !.returned = TRUE, !.pre = pre, !.post = post]

\* the clock advances between calls
Tick(d) ==
  /\ pc = "idle"
  /\ ticks < MaxTicks
  /\ now' = Add32(now, U32(d))
  /\ ticks' = ticks + 1
  /\ ResetHistory
  /\ UNCHANGED <<binVars, otherTasks, task, tasks, mstats, loopVars, uaf, statRecords>>

\* the predicate given to t.setEnabledWhen() changes its answer
ToggleCond(t) ==
  /\ task[t].enabled \in {"pred_true", "pred_false"}
  /\ TaskCall(t, [task[t] EXCEPT
                    !.enabled = IF @ = "pred_true" THEN "pred_false" ELSE "pred_true"])

\* t.setType(type)
SetType(t, type) ==
  LET tk == SetTypeRec(task[t], type)
  IN TaskCallNoted(t, tk, NotedCall("setType", t, task[t], tk))

\* a plausible slip: setEnabled(true) that only takes back setEnabled(false)
SetEnabledKeepsPredicate(t, enabled) ==
  TaskCall(t, [task[t] EXCEPT !.enabled = IF ~enabled THEN "ALWAYS_FALSE"
                                          ELSE IF @ = "ALWAYS_FALSE" THEN "null" ELSE @])

\* t.setEnabled(enabled)
SetEnabled(t, enabled) ==
  TaskCall(t, [task[t] EXCEPT !.enabled = IF enabled THEN "null" ELSE "ALWAYS_FALSE"])

\* t.setEnabledWhen(predicate), the predicate returning answer at present
SetEnabledWhen(t, answer) ==
  TaskCall(t, [task[t] EXCEPT !.enabled = IF answer THEN "pred_true" ELSE "pred_false"])

\* t.setInterval(intervalMillis)
SetInterval(t, i) ==
  TaskCall(t, [task[t] EXCEPT !.intervalMs = U32(i), !.resumed = NoResume])

\* t.onDone(callback): set is FALSE for a null callback
OnDone(t, set) == TaskCall(t, [task[t] EXCEPT !.onDone = set])

\* t.pause()
Pause(t) ==
  LET tk == [task[t] EXCEPT !.paused = TRUE]
  IN TaskCallNoted(t, tk, NotedCall("pause", t, task[t], tk))

\* t.resume(delayMillis).  A resume() without delay that directly follows a
\* pause() of the same task is noted with the task before that pause().
Resume(t, delay) ==
  LET tk == ResumeRec(task[t], delay, now)
  IN TaskCallNoted(t, tk,
                   IF delay = 0 /\ lastTry.valid /\ lastTry.call = "pause" /\ lastTry.task = t
                   THEN NotedCall("pause;resume", t, lastTry.pre, tk)
                   ELSE NoTry)

\* t.requestEarlyRun()
RequestEarlyRun(t) ==
  TaskCall(t, [task[t] EXCEPT !.lastEnd = U32(0), !.resumed = NoResume])

\* what the out-of-line bool Task::enableProfiling() returns on task tk
\* (the inline definition of the header returns nothing)
EnableProfilingResult(tk) == ~tk.stats.on

\* what the out-of-line bool Task::disableProfiling() returns on task tk
DisableProfilingResult(tk) == tk.stats.on

\* a plausible slip: enableProfiling() that replaces an existing histogram
EnableProfilingReplaces(t, binCount, unitDivider) ==
  LET tk == [task[t] EXCEPT
               !.stats = [on |-> TRUE, h |-> NewBinStatistics(binCount, unitDivider)]]
  IN TaskCallNoted(t, tk, [NotedCall("enableProfiling", t, task[t], tk) EXCEPT
                             !.ret = EnableProfilingResult(task[t])])

\* t.enableProfiling(binCount, unitDividerMillis)
EnableProfiling(t, binCount, unitDivider) ==
  LET tk == IF task[t].stats.on THEN task[t]
            ELSE [task[t] EXCEPT
                    !.stats = [on |-> TRUE, h |-> NewBinStatistics(binCount, unitDivider)]]
  IN TaskCallNoted(t, tk, [NotedCall("enableProfiling", t, task[t], tk) EXCEPT
                             !.ret = EnableProfilingResult(task[t])])

\* t.disableProfiling()
DisableProfiling(t) ==
  LET tk == [task[t] EXCEPT !.stats = NoStats]
  IN TaskCallNoted(t, tk, [NotedCall("disableProfiling", t, task[t], tk) EXCEPT
                             !.ret = DisableProfilingResult(task[t])])

\* manager.newTask(name, type, fn): the manager's shared_ptr owns the task
NewTask(t, type) ==
  /\ pc = "idle"
  /\ ~task[t].alive
  /\ Len(tasks) < MaxLen
  /\ task' = [task EXCEPT ![t] = [ConstructTask(type) EXCEPT !.owned = TRUE]]
  /\ tasks' = PushBack(tasks, t)
  /\ ResetHistory
  /\ UNCHANGED <<binVars, otherTasks, now, ticks, mstats, loopVars, uaf, statRecords>>

\* manager.addTask(t): nothing checks whether t is in the list already
AddTask(t) ==
  /\ pc = "idle"
  /\ task[t].alive
  /\ Len(tasks) < MaxLen
  /\ tasks' = PushBack(tasks, t)
  /\ ResetHistory
  /\ UNCHANGED <<binVars, otherTasks, now, ticks, task, mstats, loopVars, uaf, statRecords>>

\* other.addTask(t) on the second manager: nothing records or checks
\* whether t is in a manager already
OtherAddTask(t) ==
  /\ pc = "idle"
  /\ task[t].alive
  /\ Len(otherTasks) < MaxLen
  /\ otherTasks' = PushBack(otherTasks, t)
  /\ ResetHistory
  /\ UNCHANGED <<binVars, now, ticks, task, tasks, mstats, loopVars, uaf, statRecords>>

\* other.removeTask(t) on the second manager
OtherRemoveTask(t) ==
  /\ pc = "idle"
  /\ task[t].alive
  /\ otherTasks' = RemoveIf(otherTasks, t)
  /\ ResetHistory
  /\ UNCHANGED <<binVars, now, ticks, task, tasks, mstats, loopVars, uaf, statRecords>>

\* manager.removeTask(t)
RemoveTask(t) ==
  /\ pc = "idle"
  /\ task[t].alive
  /\ LET w == RemoveTaskW(World(FALSE), t)
     IN /\ task' = w.task
        /\ tasks' = w.tasks
  /\ ResetHistory
  /\ UNCHANGED <<binVars, otherTasks, now, ticks, mstats, loopVars, uaf, statRecords>>

\* whether the run of task t may still be recorded, and whether it may take dt
RunAllowed(t, dt) ==
  /\ task[t].stats.on => statRecords < MaxStatRecords
  /\ dt > 0 => ticks < MaxTicks

\* the history entry of a tryRun() call on t that ran it with result r, the
\* work function doing fnEff and the callback doneEff
TryRan(t, r, inLoop, fnEff, doneEff) ==
  [valid |-> TRUE, call |-> "tryRun", task |-> t, at |-> now, returned |-> r.returns,
   ret |-> TRUE, ranFn |-> TRUE, ranDone |-> r.ranDone, inLoop |-> inLoop,
   fnEff |-> fnEff, doneEff |-> IF r.ranDone THEN doneEff ELSE NoEffect,
   itErased |-> r.returns /\ r.w.dangling,
   pre |-> task[t], post |-> r.w.task[t],
   atFn |-> r.atFn, atDone |-> r.atDone, fnEnd |-> r.fnEnd]

\* the history entry of a tryRun() call on t that returned false
TrySkipped(t, inLoop) ==
  [valid |-> TRUE, call |-> "tryRun", task |-> t, at |-> now, returned |-> TRUE,
   ret |-> FALSE, ranFn |-> FALSE, ranDone |-> FALSE, inLoop |-> inLoop,
   fnEff |-> NoEffect, doneEff |-> NoEffect, itErased |-> FALSE,
   pre |-> task[t], post |-> task[t],
   atFn |-> Seen(NoTask), atDone |-> Seen(NoTask), fnEnd |-> U32(0)]

\* t.shouldRun() called directly
CallShouldRun(t) ==
  /\ pc = "idle"
  /\ task[t].alive
  /\ lastTry' = [valid |-> TRUE, call |-> "shouldRun", task |-> t, at |-> now,
                 returned |-> TRUE, ret |-> ShouldRun(task[t], now), ranFn |-> FALSE,
                 ranDone |-> FALSE, inLoop |-> FALSE, fnEff |-> NoEffect,
                 doneEff |-> NoEffect, itErased |-> FALSE,
                 pre |-> task[t], post |-> task[t],
                 atFn |-> Seen(NoTask), atDone |-> Seen(NoTask), fnEnd |-> U32(0)]
  /\ lastPass' = NoPass
  /\ passLog' = <<>>
  /\ UNCHANGED <<binVars, otherTasks, now, ticks, task, tasks, mstats, loopVars, uaf, statRecords>>

\* t.tryRun() called directly
TryRun(t, dt, fnEff, doneEff) ==
  /\ pc = "idle"
  /\ task[t].alive
  /\ doneEff # NoEffect => task[t].onDone
  /\ RunAllowed(t, dt)
  /\ IF TryRunDue(task[t], now)
     THEN LET r == RunW(World(FALSE), t, dt, fnEff, doneEff)
          IN /\ task' = r.w.task
             /\ tasks' = r.w.tasks
             /\ now' = r.w.now
             /\ uaf' = r.w.uaf
             /\ pc' = IF r.returns THEN "idle" ELSE "hung"
             /\ ticks' = IF dt > 0 THEN ticks + 1 ELSE ticks
             /\ statRecords' = IF task[t].stats.on THEN statRecords + 1 ELSE statRecords
             /\ lastTry' = TryRan(t, r, FALSE, fnEff, doneEff)
     ELSE /\ lastTry' = TrySkipped(t, FALSE)
          /\ UNCHANGED <<task, tasks, now, uaf, pc, ticks, statRecords>>
  /\ lastPass' = NoPass
  /\ passLog' = <<>>
  /\ UNCHANGED <<binVars, otherTasks, mstats, it, executed, loopNow, visited, passStart,
                 passRemoved>>

\* t.forceRun()
ForceRun(t, dt, fnEff, doneEff) ==
  /\ pc = "idle"
  /\ task[t].alive
  /\ doneEff # NoEffect => task[t].onDone
  /\ RunAllowed(t, dt)
  /\ LET r == RunW(World(FALSE), t, dt, fnEff, doneEff)
     IN /\ task' = r.w.task
        /\ tasks' = r.w.tasks
        /\ now' = r.w.now
        /\ uaf' = r.w.uaf
        /\ pc' = IF r.returns THEN "idle" ELSE "hung"
        /\ lastTry' = [TryRan(t, r, FALSE, fnEff, doneEff) EXCEPT !.call = "forceRun"]
  /\ ticks' = IF dt > 0 THEN ticks + 1 ELSE ticks
  /\ statRecords' = IF task[t].stats.on THEN statRecords + 1 ELSE statRecords
  /\ lastPass' = NoPass
  /\ passLog' = <<>>
  /\ UNCHANGED <<binVars, otherTasks, mstats, it, executed, loopNow, visited, passStart,
                 passRemoved>>

(***************************************************************************)
(* Scheduler: TaskManager::loop(), one list element per step               *)
(***************************************************************************)
\* the record() calls a pass over the current list can make
PassRecords ==
  Cardinality({k \in 1..Len(tasks) : task[tasks[k]].stats.on}) + (IF mstats.on THEN 1 ELSE 0)

\* the last two entries of a log
LastTwo(log) == IF Len(log) <= 2 THEN log ELSE SubSeq(log, Len(log) - 1, Len(log))

\* a plausible slip: the pass recorded also when no task ran
PassRecordedAlways(st, n) == st.on

\* if (_stats && executed): whether loop() records the pass
PassRecorded(st, n) == st.on /\ n > 0

\* manager.enableProfiling(taskManagerBinCount, unitDividerMillis)
MgrEnableProfiling(binCount, unitDivider) ==
  /\ pc = "idle"
  /\ mstats' = IF mstats.on THEN mstats
               ELSE [on |-> TRUE, h |-> NewBinStatistics(binCount, unitDivider)]
  /\ ResetHistory
  /\ UNCHANGED <<binVars, otherTasks, now, ticks, task, tasks, loopVars, uaf, statRecords>>

\* manager.disableProfiling(): the manager's histogram and every task's
MgrDisableProfiling ==
  /\ pc = "idle"
  /\ mstats' = NoStats
  /\ task' = [t \in TaskIds |->
               IF \E k \in 1..Len(tasks) : tasks[k] = t
               THEN [task[t] EXCEPT !.stats = NoStats] ELSE task[t]]
  /\ ResetHistory
  /\ UNCHANGED <<binVars, otherTasks, now, ticks, tasks, loopVars, uaf, statRecords>>

\* size_t executed = 0; uint32_t now = millis(); for (auto& task : _tasks)
LoopBegin ==
  /\ pc = "idle"
  /\ statRecords + PassRecords <= MaxStatRecords
  /\ pc' = "loop"
  /\ it' = 1
  /\ executed' = 0
  /\ loopNow' = now
  /\ visited' = <<>>
  /\ passStart' = tasks
  /\ passRemoved' = {}
  /\ lastTry' = NoTry
  /\ lastPass' = NoPass
  /\ UNCHANGED <<binVars, otherTasks, now, ticks, task, tasks, mstats, uaf, statRecords, passLog>>

\* if (task->tryRun()) { executed++; yield(); }  and the iterator's ++.
\* When the run erased the iterator's own node, ++ reads freed memory: the
\* pass either goes on at the node the stale next pointer leads to, or
\* crashes (crash = TRUE).
LoopStep(dt, fnEff, doneEff, crash) ==
  /\ pc = "loop"
  /\ it <= Len(tasks)
  /\ doneEff # NoEffect => task[tasks[it]].onDone
  /\ dt > 0 => ticks < MaxTicks
  /\ LET t == tasks[it]
     IN IF TryRunDue(task[t], now)
        THEN LET r == RunW(World(TRUE), t, dt, fnEff, doneEff)
                 freed == r.returns /\ r.w.dangling
             IN /\ crash => freed
                /\ task' = r.w.task
                /\ tasks' = r.w.tasks
                /\ now' = r.w.now
                /\ uaf' = (r.w.uaf \/ freed)
                /\ pc' = IF ~r.returns THEN "hung" ELSE IF crash THEN "crashed" ELSE "loop"
                /\ it' = IF ~r.returns \/ freed THEN r.w.it ELSE r.w.it + 1
                /\ executed' = IF r.returns THEN executed + 1 ELSE executed
                /\ ticks' = IF dt > 0 THEN ticks + 1 ELSE ticks
                /\ statRecords' = IF task[t].stats.on THEN statRecords + 1 ELSE statRecords
                /\ visited' = Append(visited, [task |-> t, ran |-> TRUE,
                                                   removedSelf |-> t \in r.w.removed])
                /\ passRemoved' = passRemoved \cup r.w.removed
                /\ lastTry' = TryRan(t, r, TRUE, fnEff, doneEff)
        ELSE /\ ~crash
             /\ it' = it + 1
             /\ visited' = Append(visited, [task |-> t, ran |-> FALSE, removedSelf |-> FALSE])
             /\ lastTry' = TrySkipped(t, TRUE)
             /\ UNCHANGED <<task, tasks, now, uaf, pc, executed, ticks, statRecords,
                            passRemoved>>
  /\ UNCHANGED <<binVars, otherTasks, mstats, loopNow, passStart, lastPass, passLog>>

\* if (_stats && executed) _stats->record(millis() - now); return executed;
\* The history of the pass is kept when keep is TRUE.
LoopEnd(keep) ==
  /\ pc = "loop"
  /\ it > Len(tasks)
  /\ LET recording == PassRecorded(mstats, executed)
         rec == IF recording THEN Record(mstats.h, ToNat(Sub32(now, loopNow)))
                ELSE [h |-> mstats.h, returns |-> TRUE]
     IN /\ mstats' = [mstats EXCEPT !.h = rec.h]
        /\ statRecords' = IF recording THEN statRecords + 1 ELSE statRecords
        /\ pc' = IF rec.returns THEN "idle" ELSE "hung"
        /\ lastPass' = IF rec.returns /\ keep
                       THEN [valid |-> TRUE, ret |-> executed, visited |-> visited,
                             removed |-> passRemoved, startTasks |-> passStart,
                             endTasks |-> tasks, startNow |-> loopNow, endNow |-> now,
                             statsPre |-> mstats, statsPost |-> mstats']
                       ELSE NoPass
        /\ passLog' = IF rec.returns /\ keep THEN LastTwo(Append(passLog, executed))
                      ELSE <<>>
  /\ it' = 0
  /\ executed' = 0
  /\ loopNow' = U32(0)
  /\ visited' = <<>>
  /\ passStart' = <<>>
  /\ passRemoved' = {}
  /\ lastTry' = NoTry
  /\ UNCHANGED <<binVars, otherTasks, now, ticks, task, tasks, uaf>>

(***************************************************************************)
(* The manager and its list, changed between passes                        *)
(***************************************************************************)
MgrIntervals == {0, 1000}
MgrTickSteps == {1000}

\* the program's own task objects are constructed, the manager is empty
Init ==
  /\ BinIdle
  /\ now = U32(0)
  /\ ticks = 0
  /\ task = [t \in TaskIds |-> IF t \in OwnTasks THEN ConstructTask("FOREVER") ELSE NoTask]
  /\ tasks = <<>>
  /\ otherTasks = <<>>
  /\ mstats = NoStats
  /\ pc = "idle"
  /\ it = 0
  /\ executed = 0
  /\ loopNow = U32(0)
  /\ uaf = FALSE
  /\ statRecords = 0
  /\ visited = <<>>
  /\ passStart = <<>>
  /\ passRemoved = {}
  /\ lastTry = NoTry
  /\ lastPass = NoPass
  /\ passLog = <<>>

Next ==
  \/ \E d \in MgrTickSteps : Tick(d)
  \/ \E t \in NewTasks : NewTask(t, "FOREVER")
  \/ \E t \in OwnTasks : AddTask(t)
  \/ \E t \in TaskIds : RemoveTask(t)
  \/ \E t \in TaskIds, i \in MgrIntervals : SetInterval(t, i)
  \/ LoopBegin
  \/ LoopStep(0, NoEffect, NoEffect, FALSE)
  \/ LoopEnd(TRUE)

Spec == Init /\ [][Next]_vars

(***************************************************************************)
(* The manager with tasks that remove tasks while a pass runs              *)
(***************************************************************************)
\* work functions and callbacks that remove a task from the manager
RemoveEffects == {[kind |-> "remove", target |-> u] : u \in TaskIds}

RemoveNext ==
  \/ \E t \in NewTasks : NewTask(t, "FOREVER")
  \/ \E t \in OwnTasks : AddTask(t)
  \/ \E t \in TaskIds : OnDone(t, TRUE)
  \/ LoopBegin
  \/ \E eff \in RemoveEffects, crash \in BOOLEAN :
       \/ LoopStep(0, NoEffect, NoEffect, crash)
       \/ LoopStep(0, eff, NoEffect, crash)
       \/ LoopStep(0, NoEffect, eff, crash)
  \/ LoopEnd(TRUE)

SpecRemove == Init /\ [][RemoveNext]_vars

(***************************************************************************)
(* One task and every call on it                                           *)
(***************************************************************************)
SoloTasks == {1}
SoloIntervals == {0, 2}
SoloDelays == {0, 2}
SoloTickSteps == {1}
\* how long the work function may take
SoloDurations == {0, 1}
SoloBinCounts == {1, 2}
\* a completion callback that resumes its own task
ResumeEffect == [kind |-> "resume", target |-> 0]

\* the task is constructed and added to the manager; the clock is about to
\* wrap, so that millis() is 0 after one tick
TaskInit ==
  /\ BinIdle
  /\ now = UINT32_MAX
  /\ ticks = 0
  /\ \E type \in Types :
       task = [t \in TaskIds |-> IF t \in SoloTasks THEN ConstructTask(type) ELSE NoTask]
  /\ tasks = <<1>>
  /\ otherTasks = <<>>
  /\ mstats = NoStats
  /\ pc = "idle"
  /\ it = 0
  /\ executed = 0
  /\ loopNow = U32(0)
  /\ uaf = FALSE
  /\ statRecords = 0
  /\ visited = <<>>
  /\ passStart = <<>>
  /\ passRemoved = {}
  /\ lastTry = NoTry
  /\ lastPass = NoPass
  /\ passLog = <<>>

TaskNext ==
  \/ \E d \in SoloTickSteps : Tick(d)
  \/ \E t \in SoloTasks : ToggleCond(t)
  \/ \E t \in SoloTasks, enabled \in BOOLEAN : SetEnabled(t, enabled)
  \/ \E t \in SoloTasks, answer \in BOOLEAN : SetEnabledWhen(t, answer)
  \/ \E t \in SoloTasks, i \in SoloIntervals : SetInterval(t, i)
  \/ \E t \in SoloTasks, set \in BOOLEAN : OnDone(t, set)
  \/ \E t \in SoloTasks : Pause(t)
  \/ \E t \in SoloTasks, delay \in SoloDelays : Resume(t, delay)
  \/ \E t \in SoloTasks : RequestEarlyRun(t)
  \/ \E t \in SoloTasks, binCount \in SoloBinCounts : EnableProfiling(t, binCount, 1)
  \/ \E t \in SoloTasks : DisableProfiling(t)
  \/ \E t \in SoloTasks : CallShouldRun(t)
  \/ \E t \in SoloTasks, dt \in SoloDurations, doneEff \in {NoEffect, ResumeEffect} :
       TryRun(t, dt, NoEffect, doneEff)
  \/ \E t \in SoloTasks, dt \in SoloDurations, doneEff \in {NoEffect, ResumeEffect} :
       ForceRun(t, dt, NoEffect, doneEff)
  \/ LoopBegin
  \/ \E dt \in SoloDurations, doneEff \in {NoEffect, ResumeEffect} :
       LoopStep(dt, NoEffect, doneEff, FALSE)
  \/ LoopEnd(FALSE)

SpecTask == TaskInit /\ [][TaskNext]_vars

(***************************************************************************)
(* The manager with tasks that pause or disable tasks while a pass runs    *)
(***************************************************************************)
\* work functions and callbacks that call pause() or setEnabled(false) on a task
CancelEffects == {[kind |-> k, target |-> u] : k \in {"pause", "disable"}, u \in TaskIds}
\* the clock value at which the tasks are set up
SetupTime == 1000

\* setup is done: the program's own task and two newTask() tasks are in the
\* manager, none has run
CancelInit ==
  /\ BinIdle
  /\ now = U32(SetupTime)
  /\ ticks = 0
  /\ task = [t \in TaskIds |-> IF t \in OwnTasks THEN ConstructTask("FOREVER")
                                ELSE [ConstructTask("FOREVER") EXCEPT !.owned = TRUE]]
  /\ tasks = <<2, 1, 3>>
  /\ otherTasks = <<>>
  /\ mstats = NoStats
  /\ pc = "idle"
  /\ it = 0
  /\ executed = 0
  /\ loopNow = U32(0)
  /\ uaf = FALSE
  /\ statRecords = 0
  /\ visited = <<>>
  /\ passStart = <<>>
  /\ passRemoved = {}
  /\ lastTry = NoTry
  /\ lastPass = NoPass
  /\ passLog = <<>>

CancelNext ==
  \/ \E t \in OwnTasks : OnDone(t, TRUE)
  \/ \E t \in TaskIds : Resume(t, 0)
  \/ \E t \in TaskIds : SetEnabled(t, TRUE)
  \/ LoopBegin
  \/ \E eff \in CancelEffects :
       \/ LoopStep(0, NoEffect, NoEffect, FALSE)
       \/ LoopStep(0, eff, NoEffect, FALSE)
       \/ LoopStep(0, NoEffect, eff, FALSE)
  \/ LoopEnd(TRUE)

SpecCancel == CancelInit /\ [][CancelNext]_vars

(***************************************************************************)
(* The manager's own histogram                                             *)
(***************************************************************************)
MgrBinCounts == {0, 1, 3}
\* how long a work function may take
MgrDurations == {0, 1, 2}

\* setup is done: a newTask() task and the program's own task are in the
\* manager, none has run
ProfileInit ==
  /\ BinIdle
  /\ now = U32(SetupTime)
  /\ ticks = 0
  /\ task = [t \in TaskIds |-> IF t \in OwnTasks THEN ConstructTask("FOREVER")
                                ELSE IF t = 2 THEN [ConstructTask("FOREVER") EXCEPT !.owned = TRUE]
                                ELSE NoTask]
  /\ tasks = <<2, 1>>
  /\ otherTasks = <<>>
  /\ mstats = NoStats
  /\ pc = "idle"
  /\ it = 0
  /\ executed = 0
  /\ loopNow = U32(0)
  /\ uaf = FALSE
  /\ statRecords = 0
  /\ visited = <<>>
  /\ passStart = <<>>
  /\ passRemoved = {}
  /\ lastTry = NoTry
  /\ lastPass = NoPass
  /\ passLog = <<>>

ProfileNext ==
  \/ \E binCount \in MgrBinCounts : MgrEnableProfiling(binCount, 1)
  \/ MgrDisableProfiling
  \/ \E t \in TaskIds : Pause(t)
  \/ \E t \in TaskIds : Resume(t, 0)
  \/ LoopBegin
  \/ \E dt \in MgrDurations : LoopStep(dt, NoEffect, NoEffect, FALSE)
  \/ LoopEnd(TRUE)

SpecProfile == ProfileInit /\ [][ProfileNext]_vars

(***************************************************************************)
(* Two managers and the program's own task objects                         *)
(***************************************************************************)
AttachNext ==
  \/ \E t \in NewTasks : NewTask(t, "FOREVER")
  \/ \E t \in OwnTasks : AddTask(t)
  \/ \E t \in OwnTasks : OtherAddTask(t)
  \/ \E t \in TaskIds : RemoveTask(t)
  \/ \E t \in OwnTasks : OtherRemoveTask(t)
  \/ \E t \in TaskIds : Pause(t)
  \/ \E t \in TaskIds : Resume(t, 0)
  \/ LoopBegin
  \/ LoopStep(0, NoEffect, NoEffect, FALSE)
  \/ LoopEnd(TRUE)

SpecAttach == Init /\ [][AttachNext]_vars

(***************************************************************************)
(* One REPEATING task whose interval stays as set up                       *)
(***************************************************************************)
FixedIntervals == {1, 2}

\* the task is constructed, given its interval and added to the manager; the
\* clock is one or two ticks before it wraps
IntervalInit ==
  /\ BinIdle
  /\ now \in {Sub32(UINT32_MAX, U32(1)), UINT32_MAX}
  /\ ticks = 0
  /\ \E i \in FixedIntervals :
       task = [t \in TaskIds |->
                 IF t \in SoloTasks
                 THEN [ConstructTask("FOREVER") EXCEPT !.intervalMs = U32(i)]
                 ELSE NoTask]
  /\ tasks = <<1>>
  /\ otherTasks = <<>>
  /\ mstats = NoStats
  /\ pc = "idle"
  /\ it = 0
  /\ executed = 0
  /\ loopNow = U32(0)
  /\ uaf = FALSE
  /\ statRecords = 0
  /\ visited = <<>>
  /\ passStart = <<>>
  /\ passRemoved = {}
  /\ lastTry = NoTry
  /\ lastPass = NoPass
  /\ passLog = <<>>

\* no resume(), setInterval(), requestEarlyRun() or forceRun() is called
IntervalNext ==
  \/ \E d \in SoloTickSteps : Tick(d)
  \/ \E t \in SoloTasks, enabled \in BOOLEAN : SetEnabled(t, enabled)
  \/ \E t \in SoloTasks, set \in BOOLEAN : OnDone(t, set)
  \/ \E t \in SoloTasks : CallShouldRun(t)
  \/ \E t \in SoloTasks, dt \in SoloDurations : TryRun(t, dt, NoEffect, NoEffect)
  \/ LoopBegin
  \/ \E dt \in SoloDurations : LoopStep(dt, NoEffect, NoEffect, FALSE)
  \/ LoopEnd(FALSE)

SpecInterval == IntervalInit /\ [][IntervalNext]_vars

(***************************************************************************)
(* The manager called for ever while the clock goes round                  *)
(***************************************************************************)
\* the clock advances by a quarter of its range
LiveStep == [hi |-> UINT16_MOD \div 4, lo |-> 0]
LiveIntervals == {U32(0), LiveStep, Add32(LiveStep, LiveStep)}
OtherIntervals == {U32(0), LiveStep}
LiveLists == {<<1>>, <<2, 1>>, <<2, 1, 3>>}

\* millis() advances, between two tryRun() calls or between two passes, at
\* most once from one completed pass to the next: loop() is called more
\* often than the clock takes to advance by LiveStep
ClockAdvance ==
  /\ pc \in {"idle", "loop"}
  /\ passLog # <<>>
  /\ now' = Add32(now, LiveStep)
  /\ passLog' = <<>>
  /\ UNCHANGED <<binVars, otherTasks, ticks, task, tasks, mstats, loopVars, uaf,
                 statRecords, lastTry, lastPass>>

\* setup is done: a REPEATING task of the program's own and up to two
\* newTask() tasks of either type are in the manager, each with its interval
\* (0 for the last task of three)
LiveInit ==
  /\ BinIdle
  /\ now = U32(0)
  /\ ticks = 0
  /\ tasks \in LiveLists
  /\ \E i \in LiveIntervals, j \in OtherIntervals, type \in [NewTasks -> Types] :
       task = [t \in TaskIds |->
                 IF t \in OwnTasks
                 THEN [ConstructTask("FOREVER") EXCEPT !.intervalMs = i]
                 ELSE IF \E k \in 1..Len(tasks) : tasks[k] = t
                 THEN [ConstructTask(type[t]) EXCEPT
                         !.owned = TRUE,
                         !.intervalMs = IF t = tasks[1] THEN j ELSE U32(0)]
                 ELSE NoTask]
  /\ otherTasks = <<>>
  /\ mstats = NoStats
  /\ pc = "idle"
  /\ it = 0
  /\ executed = 0
  /\ loopNow = U32(0)
  /\ uaf = FALSE
  /\ statRecords = 0
  /\ visited = <<>>
  /\ passStart = <<>>
  /\ passRemoved = {}
  /\ lastTry = NoTry
  /\ lastPass = NoPass
  /\ passLog = <<>>

LiveStepOfLoop == LoopStep(0, NoEffect, NoEffect, FALSE)

LiveNext ==
  \/ ClockAdvance
  \/ LoopBegin
  \/ LiveStepOfLoop
  \/ LoopEnd(TRUE)

\* loop() is called again and again from the program's main loop, every
\* work function returns, and the clock keeps advancing
SpecLive ==
  /\ LiveInit
  /\ [][LiveNext]_vars
  /\ WF_vars(LoopBegin)
  /\ WF_vars(LiveStepOfLoop)
  /\ WF_vars(LoopEnd(TRUE))
  /\ WF_vars(ClockAdvance)

(***************************************************************************)
(* One task whose type is changed                                          *)
(***************************************************************************)
TypeNext ==
  \/ \E d \in SoloTickSteps : Tick(d)
  \/ \E t \in SoloTasks, type \in Types : SetType(t, type)
  \/ \E t \in SoloTasks, enabled \in BOOLEAN : SetEnabled(t, enabled)
  \/ \E t \in SoloTasks, answer \in BOOLEAN : SetEnabledWhen(t, answer)
  \/ \E t \in SoloTasks, i \in SoloIntervals : SetInterval(t, i)
  \/ \E t \in SoloTasks : Pause(t)
  \/ \E t \in SoloTasks, delay \in SoloDelays : Resume(t, delay)
  \/ \E t \in SoloTasks, dt \in SoloDurations : TryRun(t, dt, NoEffect, NoEffect)
  \/ \E t \in SoloTasks, dt \in SoloDurations : ForceRun(t, dt, NoEffect, NoEffect)
  \/ LoopBegin
  \/ \E dt \in SoloDurations : LoopStep(dt, NoEffect, NoEffect, FALSE)
  \/ LoopEnd(FALSE)

SpecType == TaskInit /\ [][TypeNext]_vars

(***************************************************************************)
(* Claims about the histogram (checked under SpecBin)                      *)
(***************************************************************************)
\* the bucket the layout comment of BinStatistics assigns to value v of binCount buckets
LayoutBucket(v, binCount) == Min(binCount - 1, Log2Floor(Max(1, v)))

\* C6: record(e) on a histogram with N >= 1 buckets, none saturated, returns
\* having incremented exactly the bucket min(N-1, floor(log2(max(1, e div d))))
\* and no other bucket.
C6_RecordIncrementsLayoutBucket ==
  (/\ lastRec.valid
   /\ lastRec.pre.binCount >= 1
   /\ lastRec.pre.count # UINT32_MAX
   /\ \A i \in 1..lastRec.pre.binCount : lastRec.pre.bins[i] < UINT16_MAX)
  => /\ ~histHung
     /\ hist.bins =
          [lastRec.pre.bins EXCEPT
             ![LayoutBucket(lastRec.elapsed \div lastRec.pre.unitDivider,
                            lastRec.pre.binCount) + 1] = @ + 1]

\* C7: every record() call adds exactly 1 to the total count, whatever the
\* bucket count and however full the buckets are, except at UINT32_MAX, where
\* it clears buckets and total first and leaves the total at 1; so the total
\* is the number of record() calls since the last clear or overflow reset.
C7_TotalCountsEveryRecord ==
  /\ hist.count = recCalls
  /\ lastRec.valid =>
       IF lastRec.pre.count = UINT32_MAX
       THEN /\ hist.count = U32(1)
            /\ \A i \in 1..hist.binCount : hist.bins[i] <= 1
       ELSE hist.count = Add32(lastRec.pre.count, U32(1))

\* a record() call that found the total at UINT32_MAX and a saturated bucket
C7_Witness ==
  /\ lastRec.valid
  /\ lastRec.pre.count = UINT32_MAX
  /\ lastRec.pre.binCount >= 1
  /\ lastRec.pre.bins[1] = UINT16_MAX
  /\ hist.count = U32(1)

\* C19: a record() that returns without the overflow reset leaves every
\* bucket counter at or above its old value and at most UINT16_MAX, and
\* when the bucket for the recorded value is at UINT16_MAX already it leaves
\* all buckets as they were; so bucket counters only decrease through
\* clear() or the overflow reset.
C19_BucketsSaturate ==
  (lastRec.valid /\ ~histHung /\ lastRec.pre.count # UINT32_MAX) =>
    /\ \A i \in 1..hist.binCount :
         hist.bins[i] >= lastRec.pre.bins[i] /\ hist.bins[i] <= UINT16_MAX
    /\ hist.binCount >= 1 =>
         LET v == lastRec.elapsed \div lastRec.pre.unitDivider
         IN (\/ lastRec.pre.bins[LayoutBucket(v, hist.binCount) + 1] = UINT16_MAX
             \/ lastRec.pre.bins[HalvingLoop(v, 0, hist.binCount).bin + 1] = UINT16_MAX)
            => hist.bins = lastRec.pre.bins

\* a record() of a value whose bucket, not the first, was saturated: the
\* total grew and the buckets stayed
C19_Witness ==
  /\ lastRec.valid
  /\ ~histHung
  /\ hist.binCount >= 3
  /\ lastRec.pre.count # UINT32_MAX
  /\ lastRec.elapsed \div lastRec.pre.unitDivider >= 2
  /\ lastRec.pre.bins[2] = UINT16_MAX
  /\ hist.bins = lastRec.pre.bins
  /\ hist.count = Add32(lastRec.pre.count, U32(1))

\* C21: every record() call returns, and on a histogram with N >= 1 buckets
\* its halving loop runs at most N-1 times with the bucket index never
\* above N-1.
C21_RecordTerminates ==
  lastRec.valid =>
    /\ ~histHung
    /\ hist.binCount >= 1 =>
         LET c == HalvingCost(lastRec.elapsed \div lastRec.pre.unitDivider, 0,
                              hist.binCount)
         IN c.iterations <= hist.binCount - 1 /\ c.maxBin <= hist.binCount - 1

(***************************************************************************)
(* Claims about one task (checked under SpecTask)                          *)
(***************************************************************************)
\* C1: tryRun() runs the work function and returns true exactly when
\* shouldRun() is true for the same task state and clock value; a tryRun()
\* that returns false invokes neither the work function nor the completion
\* callback and leaves the whole task state as it was.
C1_TryRunFollowsShouldRun ==
  (lastTry.valid /\ lastTry.call = "tryRun") =>
    LET should == ShouldRun(lastTry.pre, lastTry.at)
    IN /\ lastTry.ranFn = should
       /\ lastTry.returned => lastTry.ret = should
       /\ ~lastTry.ret => /\ ~lastTry.ranFn
                          /\ ~lastTry.ranDone
                          /\ lastTry.post = lastTry.pre
                          /\ task[lastTry.task] = lastTry.pre

\* a tryRun() that returned false on an unpaused, enabled task with a
\* histogram and a completion callback, because its interval had not elapsed
C1_Witness ==
  /\ lastTry.valid
  /\ lastTry.call = "tryRun"
  /\ ~lastTry.ret
  /\ ~lastTry.pre.paused
  /\ Enabled(lastTry.pre)
  /\ lastTry.pre.stats.on
  /\ lastTry.pre.onDone
  /\ lastTry.pre.lastEnd # U32(0)

\* C2: shouldRun() is false if paused; else false if a predicate is set and
\* answers false; else true if _lastEnd is 0; else true iff the interval is 0
\* or the unsigned 32-bit difference now - _lastEnd is >= the interval.  An
\* unpaused, enabled task with interval 0 is due whatever the clock value.
C2_ShouldRunDecisionOrder ==
  (lastTry.valid /\ lastTry.call = "shouldRun") =>
    LET tk == lastTry.pre
        d == Sub32(lastTry.at, tk.lastEnd)
        decision == IF tk.paused THEN FALSE
                    ELSE IF tk.enabled \in {"ALWAYS_FALSE", "pred_false"} THEN FALSE
                    ELSE IF tk.lastEnd = U32(0) THEN TRUE
                    ELSE tk.intervalMs = U32(0) \/ Ge32(d, tk.intervalMs)
    IN /\ Add32(tk.lastEnd, d) = lastTry.at
       /\ lastTry.ret = decision
       /\ (~tk.paused /\ tk.enabled \in {"null", "pred_true"} /\ tk.intervalMs = U32(0))
            => lastTry.ret

\* shouldRun() answered true after the clock wrapped: now is below _lastEnd
\* and only the unsigned difference reaches the interval
C2_Witness ==
  /\ lastTry.valid
  /\ lastTry.call = "shouldRun"
  /\ lastTry.ret
  /\ lastTry.pre.lastEnd # U32(0)
  /\ lastTry.pre.intervalMs # U32(0)
  /\ ~Ge32(lastTry.at, lastTry.pre.lastEnd)

\* C3: once a ONCE task has run, it is paused, and every tryRun() on it,
\* direct or from loop(), returns false without running the work function
\* until resume() is called.
C3_OneShotPausedUntilResume ==
  /\ \A t \in TaskIds :
       (task[t].alive /\ task[t].type = "ONCE" /\ task[t].ranSinceResume) => task[t].paused
  /\ (lastTry.valid /\ lastTry.call = "tryRun" /\ lastTry.pre.type = "ONCE"
        /\ lastTry.pre.ranSinceResume)
      => ~lastTry.ret /\ ~lastTry.ranFn

\* a tryRun() made from loop() on a ONCE task that has run, after the clock
\* has moved on, returned false
C3_Witness ==
  /\ lastTry.valid
  /\ lastTry.call = "tryRun"
  /\ lastTry.inLoop
  /\ lastTry.pre.type = "ONCE"
  /\ lastTry.pre.ranSinceResume
  /\ lastTry.pre.lastEnd # lastTry.at
  /\ Enabled(lastTry.pre)
  /\ ~lastTry.ret

\* C10: after resume(d) with d > 0 at clock value t, the first run by
\* tryRun()/loop() comes when at least d has elapsed since t, never earlier.
C10_ResumeDelayRespected ==
  (lastTry.valid /\ lastTry.call = "tryRun" /\ lastTry.ranFn /\ lastTry.pre.resumed.valid)
  => Ge32(Sub32(lastTry.at, lastTry.pre.resumed.at), lastTry.pre.resumed.delay)

RECURSIVE BinSum(_, _)
BinSum(h, n) == IF n = 0 THEN 0 ELSE h.bins[n] + BinSum(h, n - 1)

\* C12: forceRun() runs the work function whatever the paused flag, the
\* predicate, the interval and _lastEnd are, and does what a due tryRun()
\* does afterwards: it stamps _lastEnd with the clock value at the end of the
\* work function, pauses a ONCE task, records one observation in the task's
\* histogram if profiled and, on return, has invoked the completion callback
\* if and only if one is set.
C12_ForceRunAlwaysRuns ==
  (lastTry.valid /\ lastTry.call = "forceRun") =>
    /\ lastTry.ranFn
    /\ ~lastTry.post.running
    /\ lastTry.post.lastEnd = now
    /\ (lastTry.pre.type = "ONCE" /\ lastTry.doneEff = NoEffect) => lastTry.post.paused
    /\ lastTry.pre.stats.on
         => /\ lastTry.post.stats.on
            /\ lastTry.post.stats.h.count = Add32(lastTry.pre.stats.h.count, U32(1))
            /\ lastTry.returned
                 => BinSum(lastTry.post.stats.h, lastTry.post.stats.h.binCount)
                      = BinSum(lastTry.pre.stats.h, lastTry.pre.stats.h.binCount) + 1
    /\ ~lastTry.pre.stats.on => lastTry.post.stats = lastTry.pre.stats
    /\ lastTry.returned => lastTry.ranDone = lastTry.pre.onDone

\* forceRun() ran a paused, disabled, profiled ONCE task with a callback
\* whose non-zero interval had not elapsed
C12_Witness ==
  /\ lastTry.valid
  /\ lastTry.call = "forceRun"
  /\ lastTry.returned
  /\ lastTry.pre.paused
  /\ ~Enabled(lastTry.pre)
  /\ lastTry.pre.type = "ONCE"
  /\ lastTry.pre.stats.on
  /\ lastTry.pre.onDone
  /\ lastTry.pre.lastEnd # U32(0)
  /\ lastTry.pre.intervalMs # U32(0)
  /\ lastTry.post.lastEnd # lastTry.at

\* the members of task record tk, without the history kept with them
Members(tk) == [tk EXCEPT !.ranSinceResume = FALSE, !.resumed = NoResume]

\* C13 as stated: for any task state, pause() directly followed by resume()
\* without delay leaves shouldRun() with the value it had before pause().
C13_PauseResumeRestoresShouldRun ==
  (lastTry.valid /\ lastTry.call = "pause;resume")
  => ShouldRun(lastTry.post, lastTry.at) = ShouldRun(lastTry.pre, lastTry.at)

\* C13 amended: for a task that is not paused, pause() directly followed by
\* resume() without delay leaves shouldRun() with the value it had before
\* pause(); a task that was paused already is unpaused by the resume().
C13_PauseResumeRestoresUnpaused ==
  (lastTry.valid /\ lastTry.call = "pause;resume")
  => /\ ~lastTry.post.paused
     /\ ~lastTry.pre.paused
          => /\ Members(lastTry.post) = Members(lastTry.pre)
             /\ ShouldRun(lastTry.post, lastTry.at) = ShouldRun(lastTry.pre, lastTry.at)

\* pause() and resume() on an unpaused task that was due: it is due again
C13_Witness ==
  /\ lastTry.valid
  /\ lastTry.call = "pause;resume"
  /\ ~lastTry.pre.paused
  /\ lastTry.pre.intervalMs # U32(0)
  /\ lastTry.pre.lastEnd # U32(0)
  /\ ShouldRun(lastTry.pre, lastTry.at)
  /\ ShouldRun(lastTry.post, lastTry.at)

\* C14: setEnabled(true) removes whatever predicate is set, so enabled() is
\* true; setEnabled(false) installs the always-false predicate, so enabled()
\* is false, and no tryRun(), direct or from loop(), runs the task while that
\* predicate stays, which only setEnabled(true) or setEnabledWhen() end;
\* setEnabledWhen(p) replaces either setting and enabled() is then p().
C14_SetEnabledReplacesPredicate ==
  /\ []((lastTry.valid /\ lastTry.call \in {"tryRun", "shouldRun"}
           /\ lastTry.pre.enabled = "ALWAYS_FALSE")
        => ~Enabled(lastTry.pre) /\ ~lastTry.ranFn /\ ~lastTry.ret)
  /\ [][\A t \in TaskIds :
          /\ SetEnabled(t, TRUE) => task'[t].enabled = "null" /\ Enabled(task'[t])
          /\ SetEnabled(t, FALSE) => task'[t].enabled = "ALWAYS_FALSE" /\ ~Enabled(task'[t])
          /\ \A answer \in BOOLEAN :
               SetEnabledWhen(t, answer) => Enabled(task'[t]) = answer
          /\ (task[t].alive /\ task[t].enabled = "ALWAYS_FALSE")
               => \/ task'[t].enabled = "ALWAYS_FALSE"
                  \/ SetEnabled(t, TRUE)
                  \/ \E answer \in BOOLEAN : SetEnabledWhen(t, answer)]_vars

\* loop() did not run a task that had never run and was not paused, because
\* setEnabled(false) had been called on it
C14_Witness ==
  /\ lastTry.valid
  /\ lastTry.call = "tryRun"
  /\ lastTry.inLoop
  /\ lastTry.pre.enabled = "ALWAYS_FALSE"
  /\ ~lastTry.pre.paused
  /\ EarlyRunRequested(lastTry.pre)
  /\ ~lastTry.ret

C20_RunningOnlyInsideWorkFunction ==
  /\ \A t \in TaskIds : ~task[t].running
  /\ (lastTry.valid /\ lastTry.ranFn) =>
       /\ lastTry.atFn.running
       /\ ~lastTry.pre.running
       /\ ~lastTry.atDone.running
       /\ lastTry.atDone.lastEnd = lastTry.fnEnd
       /\ lastTry.pre.type = "ONCE" => lastTry.atDone.paused

\* a ONCE task with profiling and a callback has run for some time from
\* tryRun(): the callback was invoked
C20_Witness ==
  /\ lastTry.valid
  /\ lastTry.call = "tryRun"
  /\ lastTry.ranFn
  /\ lastTry.ranDone
  /\ lastTry.pre.type = "ONCE"
  /\ ~lastTry.pre.paused
  /\ lastTry.pre.stats.on
  /\ lastTry.fnEnd # lastTry.at
  /\ lastTry.atFn.running
  /\ lastTry.atDone.paused
  /\ ~lastTry.atDone.running

(***************************************************************************)
(* Claims about the manager's pass (checked under Spec)                    *)
(***************************************************************************)
\* the tasks of the tryRun() calls log, in order
VisitedTasks(log) == [k \in 1..Len(log) |-> log[k].task]

\* the list next is list with entries taken out and at most one entry put
\* behind the others
OrderKept(list, next) ==
  \E S \in SUBSET TaskIds, tail \in {<<>>} \cup {<<t>> : t \in TaskIds} :
    next = SelectSeq(list, LAMBDA x : x \in S) \o tail

\* C4: with newTask/addTask/removeTask called between passes only, a pass
\* calls tryRun() once per list entry, in list (insertion) order, and returns
\* the number of calls that returned true; no step changes the relative
\* order of the entries that stay in the list.
C4_PassInInsertionOrder ==
  /\ [](lastPass.valid =>
         /\ VisitedTasks(lastPass.visited) = lastPass.startTasks
         /\ lastPass.endTasks = lastPass.startTasks
         /\ lastPass.ret = Cardinality({k \in 1..Len(lastPass.visited) :
                                          lastPass.visited[k].ran}))
  /\ [][OrderKept(tasks, tasks')]_vars

\* a pass over three tasks that are not in the order of their construction,
\* made after the clock has advanced, in which some ran and some did not
C4_Witness ==
  /\ lastPass.valid
  /\ Len(lastPass.startTasks) = 3
  /\ lastPass.startTasks[1] > lastPass.startTasks[2]
  /\ ticks > 0
  /\ lastPass.ret > 0
  /\ lastPass.ret < 3

\* the manager holds three different FOREVER tasks, unpaused and enabled,
\* two with interval 0 and one with interval 1000
ThreeTaskScenario ==
  /\ Len(tasks) = 3
  /\ Cardinality({tasks[k] : k \in 1..3}) = 3
  /\ \A k \in 1..3 : /\ task[tasks[k]].alive
                      /\ task[tasks[k]].type = "FOREVER"
                      /\ ~task[tasks[k]].paused
                      /\ Enabled(task[tasks[k]])
  /\ Cardinality({k \in 1..3 : task[tasks[k]].intervalMs = U32(0)}) = 2
  /\ Cardinality({k \in 1..3 : task[tasks[k]].intervalMs = U32(1000)}) = 1

\* C5: with three FOREVER tasks of intervals 0, 0 and 1000 and the clock
\* standing at 0, the first loop() returns 3 and a second loop() made
\* immediately afterwards returns 2.
C5_ThreeThenTwo ==
  (/\ now = U32(0)
   /\ ticks = 0
   /\ pc = "idle"
   /\ ThreeTaskScenario
   /\ Len(passLog) = 2)
  => passLog = <<3, 2>>

(***************************************************************************)
(* Claims about removal during a pass (checked under SpecRemove)           *)
(***************************************************************************)
\* the effect of removing task u from the manager
RemoveOf(u) == [kind |-> "remove", target |-> u]

\* C8: when the completion callback of the task that loop() is executing
\* removes that task from the manager, the pass reads no erased list node
\* and no destroyed task and does not crash, and the pass attempts every
\* other list entry exactly once.
C8_SelfRemovalInCallbackIsSafe ==
  /\ (/\ lastTry.valid
      /\ lastTry.inLoop
      /\ lastTry.ranDone
      /\ lastTry.doneEff = RemoveOf(lastTry.task))
     => ~lastTry.itErased /\ pc # "crashed"
  /\ (/\ lastPass.valid
      /\ \E k \in 1..Len(lastPass.visited) : lastPass.visited[k].removedSelf)
     => SelectSeq(VisitedTasks(lastPass.visited), LAMBDA x : x \notin lastPass.removed)
          = lastPass.endTasks

\* C9: when a work function or a completion callback removes a task other
\* than its own during a pass, the iterator stays valid, the removed task has
\* left the list and is not attempted afterwards, and the pass attempts
\* every entry that remains exactly once; a pass only visits tasks that were
\* in the list when it began, so a removed task is not run by later passes.
C9_RemovingAnotherTaskIsSafe ==
  /\ (/\ lastTry.valid
      /\ lastTry.inLoop
      /\ \E u \in TaskIds \ {lastTry.task} :
           lastTry.fnEff = RemoveOf(u) \/ lastTry.doneEff = RemoveOf(u))
     => /\ ~lastTry.itErased
        /\ pc = "loop"
        /\ \A u \in TaskIds \ {lastTry.task} :
             (lastTry.fnEff = RemoveOf(u) \/ lastTry.doneEff = RemoveOf(u))
               => \A k \in 1..Len(tasks) : tasks[k] # u
  /\ (lastTry.valid /\ lastTry.inLoop)
     => /\ \E k \in 1..Len(passStart) : passStart[k] = lastTry.task
        /\ lastTry.task \in passRemoved
             => (lastTry.fnEff = RemoveOf(lastTry.task)
                  \/ lastTry.doneEff = RemoveOf(lastTry.task))
  /\ (/\ lastPass.valid
      /\ lastPass.removed # {}
      /\ \A k \in 1..Len(lastPass.visited) : ~lastPass.visited[k].removedSelf)
     => /\ SelectSeq(VisitedTasks(lastPass.visited), LAMBDA x : x \notin lastPass.removed)
             = lastPass.endTasks
        /\ \A k \in 1..Len(lastPass.endTasks) : lastPass.endTasks[k] \notin lastPass.removed
        /\ lastPass.endTasks
             = SelectSeq(lastPass.startTasks, LAMBDA x : x \notin lastPass.removed)

\* a pass over three entries whose first task removed the second, which was
\* then not attempted, while the third was
C9_Witness ==
  /\ lastPass.valid
  /\ Len(lastPass.startTasks) = 3
  /\ lastPass.removed = {lastPass.startTasks[2]}
  /\ VisitedTasks(lastPass.visited) = <<lastPass.startTasks[1], lastPass.startTasks[3]>>
  /\ lastPass.ret = 2

(***************************************************************************)
(* Claims about pausing and disabling during a pass (checked under         *)
(* SpecCancel)                                                             *)
(***************************************************************************)
\* task tk has been paused or disabled with setEnabled(false)
Cancelled(tk) == tk.paused \/ tk.enabled = "ALWAYS_FALSE"

\* C15: pause() and setEnabled(false), also when called by the work function
\* or callback of a task earlier in the pass, leave the task paused or
\* disabled; it stays so until resume() or setEnabled(true), and no tryRun()
\* of loop() runs it meanwhile.  A task that pauses or disables itself while
\* it runs completes that run.
C15_PauseAndDisableTakeEffect ==
  /\ []((lastTry.valid /\ lastTry.call = "tryRun" /\ Cancelled(lastTry.pre))
        => ~lastTry.ranFn /\ ~lastTry.ret)
  /\ []((lastTry.valid /\ lastTry.call = "tryRun" /\ lastTry.ranFn)
        => /\ lastTry.returned
           /\ lastTry.post.lastEnd = lastTry.at
           /\ ~lastTry.post.running
           /\ lastTry.ranDone = lastTry.pre.onDone
           /\ \A eff \in CancelEffects :
                (lastTry.fnEff = eff \/ lastTry.doneEff = eff)
                  => Cancelled(task[eff.target]))
  /\ [][\A t \in TaskIds :
          /\ (task[t].paused /\ ~task'[t].paused) => Resume(t, 0)
          /\ (task[t].enabled = "ALWAYS_FALSE" /\ task'[t].enabled # "ALWAYS_FALSE")
               => SetEnabled(t, TRUE)]_vars

\* in one pass the first task ran and paused or disabled the second, which
\* had never run and was due; the second was then not run
C15_Witness ==
  /\ pc = "loop"
  /\ Len(visited) = 2
  /\ visited[1].ran
  /\ ~visited[2].ran
  /\ lastTry.valid
  /\ lastTry.inLoop
  /\ lastTry.task = tasks[2]
  /\ Cancelled(lastTry.pre)
  /\ EarlyRunRequested(lastTry.pre)
  /\ passLog = <<>>

(***************************************************************************)
(* Claims about the manager's histogram (checked under SpecProfile)        *)
(***************************************************************************)
\* C16: a loop() that returns has recorded one observation, the clock value
\* at the end of the pass minus the clock value at its start, in the
\* manager's histogram if manager profiling is on and the pass ran at least
\* one task, and has otherwise left that histogram as it was.
C16_PassRecordedIffTasksRan ==
  lastPass.valid =>
    IF lastPass.statsPre.on /\ lastPass.ret > 0
    THEN /\ lastPass.statsPost.on
         /\ lastPass.statsPost.h.count = Add32(lastPass.statsPre.h.count, U32(1))
         /\ lastPass.statsPost.h
              = Record(lastPass.statsPre.h,
                       ToNat(Sub32(lastPass.endNow, lastPass.startNow))).h
         /\ lastPass.statsPre.h.binCount > 0
              => BinSum(lastPass.statsPost.h, lastPass.statsPost.h.binCount)
                   = BinSum(lastPass.statsPre.h, lastPass.statsPre.h.binCount) + 1
    ELSE lastPass.statsPost = lastPass.statsPre

\* a pass that took time and ran a task was recorded in a manager histogram
\* with buckets
C16_Witness ==
  /\ lastPass.valid
  /\ lastPass.statsPre.on
  /\ lastPass.statsPre.h.binCount > 1
  /\ lastPass.ret > 0
  /\ lastPass.endNow # lastPass.startNow
  /\ lastPass.statsPost.h.count = U32(1)

(***************************************************************************)
(* Claims about attaching tasks (checked under SpecAttach)                 *)
(***************************************************************************)
\* task t is in the list list
Listed(list, t) == \E k \in 1..Len(list) : list[k] = t

\* C18: attaching a task to a second manager while it is attached to one is
\* rejected, so that no task is ever in the task collection of more than one
\* manager.
C18_AtMostOneManager ==
  \A t \in TaskIds : ~(Listed(tasks, t) /\ Listed(otherTasks, t))

(***************************************************************************)
(* Claims about the interval between runs (checked under SpecInterval)     *)
(***************************************************************************)
\* C22: a run of a REPEATING task with interval I > 0 started by tryRun(),
\* direct or from loop(), when the task has completed a run before, starts
\* at least I after that run's completion time (_lastEnd, which nothing but
\* a run changes here).
C22_IntervalBetweenRuns ==
  (/\ lastTry.valid
   /\ lastTry.call = "tryRun"
   /\ lastTry.ranFn
   /\ lastTry.pre.type = "FOREVER"
   /\ lastTry.pre.intervalMs # U32(0)
   /\ lastTry.pre.ranSinceResume)
  => Ge32(Sub32(lastTry.at, lastTry.pre.lastEnd), lastTry.pre.intervalMs)

(***************************************************************************)
(* Claims about starvation (checked under SpecLive)                        *)
(***************************************************************************)
\* task t is in the manager's list, REPEATING, enabled and not paused
Eligible(t) ==
  /\ Listed(tasks, t)
  /\ task[t].alive
  /\ task[t].type = "FOREVER"
  /\ ~task[t].paused
  /\ Enabled(task[t])

\* a pass has just run task t
RanInPass(t) == lastTry.valid /\ lastTry.inLoop /\ lastTry.task = t /\ lastTry.ranFn

C24_SetTypeAndOneShotStart ==
  /\ \A t \in TaskIds : (task[t].alive /\ task[t].type = "ONCE") => task[t].paused
  /\ []((lastTry.valid /\ lastTry.call = "tryRun" /\ lastTry.pre.type = "ONCE"
            /\ lastTry.pre.paused)
         => ~lastTry.ranFn /\ ~lastTry.ret)
  /\ []((lastTry.valid /\ lastTry.call = "setType")
         => /\ task[lastTry.task] = lastTry.post
            /\ IF lastTry.post.type = lastTry.pre.type
               THEN lastTry.post = lastTry.pre
               ELSE lastTry.post = [lastTry.pre EXCEPT
                                      !.type = lastTry.post.type,
                                      !.paused = (lastTry.post.type = "ONCE")])
  /\ [][\A t \in TaskIds :
          /\ \A type \in Types : SetType(t, type) => task'[t].type = type
          /\ (task[t].alive /\ task[t].type = "ONCE" /\ task[t].paused
                /\ ~task'[t].paused)
             => \/ \E delay \in SoloDelays : Resume(t, delay)
                \/ \E type \in Types : SetType(t, type)]_vars

\* setType(ONCE) was called on a ONCE task that had been resumed, and left
\* it unpaused
C24_Witness ==
  /\ lastTry.valid
  /\ lastTry.call = "setType"
  /\ lastTry.pre.type = "ONCE"
  /\ ~lastTry.pre.paused
  /\ lastTry.pre.lastEnd # U32(0)
  /\ lastTry.pre.intervalMs # U32(0)
  /\ lastTry.post.type = "ONCE"
  /\ ~lastTry.post.paused

====
